---- MODULE Spec2Model ----
(***************************************************************************)
(* Model of the request-validation engine of koa-template:                 *)
(*   src/app/util/BaseValidator.js  (BaseValidator, Rule, RuleField)       *)
(*   src/app/util/helper.js         (findMembers)                          *)
(*   src/validator/RegisterValidator.js (validatePassword)                 *)
(*                                                                         *)
(* JavaScript values are records [t |-> type, v |-> text]; the text of a   *)
(* number is its decimal numeral, so that parseInt / parseFloat / !! and   *)
(* value + '' are real conversions between distinct values.                *)
(* The Chinese message literals of the source are written in English:      *)
(*   "invalid parameter"  for the literal of BaseValidator.js:100 and :223 *)
(*   "field is required"  for the literal of BaseValidator.js:253          *)
(***************************************************************************)
EXTENDS Integers, Sequences, FiniteSets, TLC

VARIABLES
  own,            \* members assigned in the subtype constructor: <<[key, rules]>>
  chain,          \* prototype levels between the instance and BaseValidator.prototype
  custom,         \* behaviour of this.validateUnique, a check that suspends on I/O
  params,         \* this.params
  paramsChecked,  \* this.paramsChecked
  memberKeys,     \* this.memberKeys: [isArray, keys]
  pc,             \* "idle" | "running" | "done" : position of validate()
  idx,            \* position in this.memberKeys of the next member to check
  errorMessages,  \* local errorMessages of validate()
  inflight,       \* positions whose _check has been started and has not completed
  log,            \* history: the completed member checks of the current call
  outcome,        \* how the last validate() call ended
  calls,          \* number of validate() calls started on the instance
  firstDisc,      \* history: what the first call's member discovery produced
  lastDisc,       \* history: what the latest call's member discovery produced
  lastGet,        \* the last get(path, parsed) call and its return value
  fieldRun,       \* RuleField.validate applied on its own: [stage, rules, value, result]
  findRun         \* _findParam applied on its own: [stage, key, result]

vars == <<own, chain, custom, params, paramsChecked, memberKeys, pc, idx,
          errorMessages, inflight, log, outcome, calls, firstDisc, lastDisc,
          lastGet, fieldRun, findRun>>

-----------------------------------------------------------------------------
(* Bounds *)

MaxCalls == 2
MaxLevels == 2
MaxRules == 2

-----------------------------------------------------------------------------
(* JavaScript values *)

Undef == [t |-> "undefined", v |-> ""]
Null == [t |-> "null", v |-> ""]
Str(s) == [t |-> "string", v |-> s]
Num(s) == [t |-> "number", v |-> s]
Bool(s) == [t |-> "boolean", v |-> s]

\* value == null
IsNullish(x) == x.t \in {"undefined", "null"}

\* if (value), !value
Truthy(x) ==
  CASE x.t = "string" -> x.v # ""
    [] x.t = "number" -> x.v \notin {"0", "NaN"}
    [] x.t = "boolean" -> x.v = "true"
    [] OTHER -> FALSE

\* value + ''
JsToString(x) ==
  CASE x.t = "undefined" -> "undefined"
    [] x.t = "null" -> "null"
    [] OTHER -> x.v

IntNumerals == {"0", "1", "7", "18"}
FloatNumerals == IntNumerals \cup {"1.5"}

\* parseInt(value): the longest integer prefix of the text, else NaN
ParseInt(x) ==
  LET s == JsToString(x) IN
  CASE s \in IntNumerals -> Num(s)
    [] s = "1.5" -> Num("1")
    [] OTHER -> Num("NaN")

\* parseFloat(value)
ParseFloat(x) ==
  LET s == JsToString(x) IN
  IF s \in FloatNumerals THEN Num(s) ELSE Num("NaN")

\* !!value
ToBoolean(x) == IF Truthy(x) THEN Bool("true") ELSE Bool("false")

-----------------------------------------------------------------------------
(* Predicate catalog: the functions of validator.js the rules name.        *)

PredicateNames == {"isInt", "isFloat", "isBoolean", "isEmail"}

Predicate(name, s) ==
  CASE name = "isInt" -> s \in IntNumerals
    [] name = "isFloat" -> s \in FloatNumerals
    [] name = "isBoolean" -> s \in {"true", "false", "1", "0"}
    [] name = "isEmail" -> s = "a@b.com"
    [] OTHER -> FALSE

-----------------------------------------------------------------------------
(* Rule, RuleField *)

\* new Rule(name, message, ...options); opt is options[0]
Rule(name, message, opt) ==
  [isRule |-> TRUE, name |-> name, message |-> message, opt |-> opt]

\* an array element that is not a Rule instance; its .name is undefined
NotARule == [isRule |-> FALSE, name |-> "undefined", message |-> "", opt |-> Undef]

\* Rule.validate(value): [threw, pass, message, predCalls]
RuleValidate(rule, value) ==
  IF ~rule.isRule
    THEN [threw |-> TRUE, pass |-> FALSE, message |-> "", predCalls |-> 0]
  ELSE IF rule.name = "isOptional"
    THEN [threw |-> FALSE, pass |-> TRUE, message |-> "", predCalls |-> 0]
  ELSE IF rule.name \notin PredicateNames
    THEN [threw |-> TRUE, pass |-> FALSE, message |-> "", predCalls |-> 0]
  ELSE IF ~Predicate(rule.name, JsToString(value))
    THEN [threw |-> FALSE, pass |-> FALSE,
          message |-> IF rule.message # "" THEN rule.message ELSE "invalid parameter",
          predCalls |-> 1]
  ELSE [threw |-> FALSE, pass |-> TRUE, message |-> "", predCalls |-> 1]

\* RuleField._allowEmpty
AllowEmpty(rules) == \E i \in 1..Len(rules) : rules[i].name = "isOptional"

\* RuleField._hasDefault: options[0] of the first isOptional rule, else undefined
HasDefault(rules) ==
  IF AllowEmpty(rules)
    THEN LET i == CHOOSE i \in 1..Len(rules) :
                    /\ rules[i].name = "isOptional"
                    /\ \A j \in 1..(i - 1) : rules[j].name # "isOptional"
         IN rules[i].opt
    ELSE Undef

CoercionNames == {"isInt", "isFloat", "isBoolean"}

\* RuleField._convert: the first rule, in declared order, that bears a coercion
Convert(rules, value) ==
  IF \E i \in 1..Len(rules) : rules[i].name \in CoercionNames
    THEN LET i == CHOOSE i \in 1..Len(rules) :
                    /\ rules[i].name \in CoercionNames
                    /\ \A j \in 1..(i - 1) : rules[j].name \notin CoercionNames
         IN CASE rules[i].name = "isInt" -> ParseInt(value)
              [] rules[i].name = "isFloat" -> ParseFloat(value)
              [] OTHER -> ToBoolean(value)
    ELSE value

\* the loop of RuleField.validate over this.rules: the messages of the failing rules
RECURSIVE RuleMessages(_, _)
RuleMessages(rules, value) ==
  IF rules = <<>> THEN <<>>
  ELSE LET r == RuleValidate(Head(rules), value)
       IN (IF r.pass THEN <<>> ELSE <<r.message>>) \o RuleMessages(Tail(rules), value)

\* number of predicate invocations of that loop (up to the first throw)
RECURSIVE RulePredCalls(_, _)
RulePredCalls(rules, value) ==
  IF rules = <<>> THEN 0
  ELSE LET r == RuleValidate(Head(rules), value)
       IN IF r.threw THEN 0 ELSE r.predCalls + RulePredCalls(Tail(rules), value)

RulesThrow(rules, value) ==
  \E i \in 1..Len(rules) : RuleValidate(rules[i], value).threw

\* RuleField.validate(value): [threw, pass, message, legalValue, predCalls]
\* message is the sequence of messages (a single text is a one-element sequence)
RuleFieldValidate(rules, value) ==
  IF IsNullish(value)
    THEN IF AllowEmpty(rules)
           THEN IF ~Truthy(HasDefault(rules))
                  THEN [threw |-> TRUE, pass |-> FALSE, message |-> <<>>,
                        legalValue |-> Null, predCalls |-> 0]
                  ELSE [threw |-> FALSE, pass |-> TRUE, message |-> <<>>,
                        legalValue |-> HasDefault(rules), predCalls |-> 0]
           ELSE [threw |-> FALSE, pass |-> FALSE, message |-> <<"field is required">>,
                 legalValue |-> Null, predCalls |-> 0]
  ELSE IF RulesThrow(rules, value)
    THEN [threw |-> TRUE, pass |-> FALSE, message |-> <<>>,
          legalValue |-> Null, predCalls |-> RulePredCalls(rules, value)]
  ELSE IF RuleMessages(rules, value) # <<>>
    THEN [threw |-> FALSE, pass |-> FALSE, message |-> RuleMessages(rules, value),
          legalValue |-> Null, predCalls |-> RulePredCalls(rules, value)]
  ELSE [threw |-> FALSE, pass |-> TRUE, message |-> <<>>,
        legalValue |-> Convert(rules, value), predCalls |-> RulePredCalls(rules, value)]

-----------------------------------------------------------------------------
(* The validator definition and the request *)

Keys == {"password1", "password2"}
Sources == <<"query", "body", "path", "header">>

\* class fields of BaseValidator (lines 23-25): own keys of every instance
BaseFieldKeys == <<"params", "paramsChecked", "memberKeys">>

\* Reflect.ownKeys(BaseValidator.prototype)
BaseProtoKeys == <<"constructor", "_initParams", "get", "validate", "_check",
                   "_assembleAllParams", "_findMembersFilter", "_findParam">>

\* the keys of the model that match /validate([A-Z])\w+/
CustomCheckNames == {"validatePassword", "validateUnique"}

OwnKeys == [i \in 1..Len(own) |-> own[i].key]

\* Reflect.ownKeys(this)
InstanceKeys == BaseFieldKeys \o OwnKeys

\* the objects _find visits: the instance, then each prototype up to
\* BaseValidator.prototype; Object.prototype has a null __proto__ and ends the walk
Levels == <<InstanceKeys>> \o chain \o <<BaseProtoKeys>>

IsOwnKey(key) == \E i \in 1..Len(own) : own[i].key = key

OwnRules(key) == own[CHOOSE i \in 1..Len(own) : own[i].key = key].rules

HasCustom(key) ==
  \E l \in 1..Len(chain) : \E i \in 1..Len(chain[l]) : chain[l][i] = key

\* typeof this[key], with "array" for instanceof Array
TypeOfMember(key) ==
  CASE key \in {"params", "paramsChecked"} -> "object"
    [] key = "memberKeys" -> IF memberKeys.isArray THEN "array" ELSE "undefined"
    [] IsOwnKey(key) -> "array"
    [] HasCustom(key) -> "function"
    [] \E i \in 1..Len(BaseProtoKeys) : BaseProtoKeys[i] = key -> "function"
    [] OTHER -> "undefined"

\* this[key] when it is an array; the strings of this.memberKeys are not Rules
ArrayOfMember(key) ==
  IF key = "memberKeys"
    THEN [i \in 1..Len(memberKeys.keys) |-> NotARule]
    ELSE OwnRules(key)

-----------------------------------------------------------------------------
(* Member discovery *)

\* /validate([A-Z])\w+/g.test(key)
ValidateRegexTest(key) == key \in CustomCheckNames

\* BaseValidator._findMembersFilter(key): [threw, keep]
FindMembersFilter(key) ==
  IF ValidateRegexTest(key) THEN [threw |-> FALSE, keep |-> TRUE]
  ELSE IF TypeOfMember(key) = "array"
    THEN IF \E i \in 1..Len(ArrayOfMember(key)) : ~ArrayOfMember(key)[i].isRule
           THEN [threw |-> TRUE, keep |-> FALSE]
           ELSE [threw |-> FALSE, keep |-> TRUE]
  ELSE [threw |-> FALSE, keep |-> FALSE]

\* keys.filter(_shouldKeep) of one object: [threw, keys]
RECURSIVE FilterKeys(_)
FilterKeys(keys) ==
  IF keys = <<>> THEN [threw |-> FALSE, keys |-> <<>>]
  ELSE LET f == FindMembersFilter(Head(keys))
           rest == FilterKeys(Tail(keys))
       IN IF f.threw \/ rest.threw
            THEN [threw |-> TRUE, keys |-> <<>>]
            ELSE [threw |-> FALSE,
                  keys |-> (IF f.keep THEN <<Head(keys)>> ELSE <<>>) \o rest.keys]

\* _find(obj): [...keys, ..._find(obj.__proto__)]
RECURSIVE Find(_)
Find(levels) ==
  IF levels = <<>> THEN [threw |-> FALSE, keys |-> <<>>]
  ELSE LET cur == FilterKeys(Head(levels))
           rest == Find(Tail(levels))
       IN IF cur.threw \/ rest.threw
            THEN [threw |-> TRUE, keys |-> <<>>]
            ELSE [threw |-> FALSE, keys |-> cur.keys \o rest.keys]

\* findMembers(this, {filter: this._findMembersFilter.bind(this)})
FindMembers == Find(Levels)

-----------------------------------------------------------------------------
(* Parameter lookup *)

\* _.get(object, [bucket, key])
LodashGet(obj, bucket, key) ==
  IF bucket \in DOMAIN obj /\ key \in DOMAIN obj[bucket] THEN obj[bucket][key] ELSE Undef

\* the first source, from position i on, where if (value) holds; 0 if none
RECURSIVE FirstSource(_, _)
FirstSource(key, i) ==
  IF i > Len(Sources) THEN 0
  ELSE IF Truthy(LodashGet(params, Sources[i], key)) THEN i
  ELSE FirstSource(key, i + 1)

\* BaseValidator._findParam(key): [value, path]
FindParam(key) ==
  LET i == FirstSource(key, 1)
  IN IF i = 0 THEN [value |-> Null, path |-> <<>>]
     ELSE [value |-> LodashGet(params, Sources[i], key), path |-> <<Sources[i], key>>]

\* _.set(this.paramsChecked, [bucket, key], value): a missing bucket is created
LodashSet(obj, bucket, key, value) ==
  [b \in (DOMAIN obj) \cup {bucket} |->
     IF b = bucket
       THEN [k \in (IF b \in DOMAIN obj THEN DOMAIN obj[b] ELSE {}) \cup {key} |->
               IF k = key THEN value ELSE obj[b][k]]
       ELSE obj[b]]

\* BaseValidator.get(path, parsed)
Get(path, parsed) ==
  IF parsed
    THEN LET found == IF Len(path) = 2 THEN LodashGet(paramsChecked, path[1], path[2])
                      ELSE Undef
             value == IF found = Undef THEN Null ELSE found
         IN IF ~Truthy(value)
              THEN LodashGet(paramsChecked, "default", path[Len(path)])
              ELSE value
    ELSE IF Len(path) = 2 THEN LodashGet(params, path[1], path[2]) ELSE Undef

-----------------------------------------------------------------------------
(* Custom checks *)

CustomBehaviours == {"asyncPass", "asyncFail", "asyncFailNoMessage"}

\* what this[key](this.params) signals: [throws, message].
\* validatePassword is RegisterValidator.validatePassword (password1 !== password2);
\* validateUnique is a check that suspends on a lookup and then resolves, or
\* rejects with an Error whose message may be empty
CustomOutcome(key) ==
  IF key = "validatePassword"
    THEN [throws |-> LodashGet(params, "body", "password1")
                       # LodashGet(params, "body", "password2"),
          message |-> "passwords differ"]
  ELSE CASE custom = "asyncFail" -> [throws |-> TRUE, message |-> "already registered"]
         [] custom = "asyncFailNoMessage" -> [throws |-> TRUE, message |-> ""]
         [] OTHER -> [throws |-> FALSE, message |-> ""]

\* mutation: the message of the error is taken as it is
CatchMessageNoFallback(message) == message

\* catch (error): new RuleResult(false, error.message || fallback)
CatchMessage(message) == IF message # "" THEN message ELSE "invalid parameter"

\* the message _check returns for a failed member (line 122)
CheckMessage(isCustomFunc, key, message) ==
  [prefix |-> IF isCustomFunc THEN "" ELSE key, text |-> message]

-----------------------------------------------------------------------------
(* validate() *)

ParameterErrorCode == 10001

NoOutcome == [kind |-> "none", code |-> 0, messages |-> <<>>]
NoDisc == [threw |-> FALSE, keys |-> <<>>]
NoGet == [set |-> FALSE, path |-> <<>>, parsed |-> TRUE, value |-> Undef]
NoFieldRun == [stage |-> "off", rules |-> <<>>, value |-> Undef,
               result |-> RuleFieldValidate(<<>>, Undef)]
NoFindRun == [stage |-> "off", key |-> "", result |-> [value |-> Null, path |-> <<>>]]

\* mutation: the loop also stops at the first failure
LoopDoneFailFast == idx > Len(memberKeys.keys) \/ errorMessages # <<>>

\* for (const memberKey of this.memberKeys): the loop has run out of members
LoopDone == idx > Len(memberKeys.keys)

\* mutation: the check is started and not awaited
NoAwaitCheck == TRUE

\* await this._check(memberKey): the loop goes on only when the check has completed
AwaitCheck == inflight = {}

\* the part of validate() before the loop (lines 70-74)
StartValidate ==
  /\ pc \in {"idle", "done"}
  /\ calls < MaxCalls
  /\ LET d == FindMembers IN
       /\ calls' = calls + 1
       /\ lastDisc' = d
       /\ firstDisc' = IF calls = 0 THEN d ELSE firstDisc
       /\ lastGet' = NoGet
       /\ log' = <<>>
       /\ errorMessages' = <<>>
       /\ inflight' = {}
       /\ idx' = 1
       /\ IF d.threw
            THEN /\ pc' = "done"
                 /\ outcome' = [kind |-> "Error", code |-> 0, messages |-> <<>>]
                 /\ UNCHANGED memberKeys
            ELSE /\ pc' = "running"
                 /\ outcome' = NoOutcome
                 /\ memberKeys' = [isArray |-> TRUE, keys |-> d.keys]
  /\ UNCHANGED <<own, chain, custom, params, paramsChecked, fieldRun, findRun>>

\* mutation: an error thrown by the field validator is caught as a failed check
FieldCheckCaught(key) ==
  LET param == FindParam(key)
      result == RuleFieldValidate(ArrayOfMember(key), param.value)
  IN [threw |-> FALSE,
      pass |-> result.pass,
      message |-> IF result.threw THEN <<"invalid parameter">> ELSE result.message,
      checked |-> IF ~result.pass THEN paramsChecked
                  ELSE IF Len(param.path) = 0
                    THEN LodashSet(paramsChecked, "default", key, result.legalValue)
                    ELSE LodashSet(paramsChecked, param.path[1], param.path[2],
                                   result.legalValue)]

\* the else branch of _check (lines 102-119): [threw, pass, message, checked]
FieldCheck(key) ==
  LET param == FindParam(key)
      result == RuleFieldValidate(ArrayOfMember(key), param.value)
  IN [threw |-> result.threw,
      pass |-> result.pass,
      message |-> result.message,
      checked |-> IF ~result.pass THEN paramsChecked
                  ELSE IF Len(param.path) = 0
                    THEN LodashSet(paramsChecked, "default", key, result.legalValue)
                    ELSE LodashSet(paramsChecked, param.path[1], param.path[2],
                                   result.legalValue)]

\* one iteration of the loop on a rule-set member: _check(key) and lines 80-82
CheckField ==
  /\ pc = "running"
  /\ ~LoopDone
  /\ AwaitCheck
  /\ LET key == memberKeys.keys[idx]
         r == FieldCheck(key)
     IN /\ TypeOfMember(key) # "function"
        /\ IF r.threw
             THEN /\ pc' = "done"
                  /\ outcome' = [kind |-> IF IsNullish(FindParam(key).value)
                                            THEN "Error" ELSE "TypeError",
                                 code |-> 0, messages |-> <<>>]
                  /\ UNCHANGED <<paramsChecked, errorMessages, log, idx>>
             ELSE /\ paramsChecked' = r.checked
                  /\ errorMessages' =
                       IF r.pass THEN errorMessages
                       ELSE Append(errorMessages, CheckMessage(FALSE, key, r.message))
                  /\ log' = Append(log, [pos |-> idx, key |-> key, isCustom |-> FALSE,
                                         success |-> r.pass,
                                         message |-> CheckMessage(FALSE, key, r.message)])
                  /\ idx' = idx + 1
                  /\ UNCHANGED <<pc, outcome>>
  /\ UNCHANGED <<own, chain, custom, params, memberKeys, inflight, calls, firstDisc,
                 lastDisc, lastGet, fieldRun, findRun>>

\* _check(key) on a custom check, up to its await (lines 94-97): the check is invoked
CustomInvoke ==
  /\ pc = "running"
  /\ ~LoopDone
  /\ AwaitCheck
  /\ TypeOfMember(memberKeys.keys[idx]) = "function"
  /\ inflight' = inflight \cup {idx}
  /\ idx' = idx + 1
  /\ UNCHANGED <<own, chain, custom, params, paramsChecked, memberKeys, pc,
                 errorMessages, log, outcome, calls, firstDisc, lastDisc, lastGet,
                 fieldRun, findRun>>

\* the custom check settles (lines 98-101, 121-131) and validate() takes its result
CustomSettle ==
  /\ pc = "running"
  /\ \E p \in inflight :
       LET key == memberKeys.keys[p]
           o == CustomOutcome(key)
           m == CheckMessage(TRUE, key, <<CatchMessage(o.message)>>)
       IN /\ inflight' = inflight \ {p}
          /\ errorMessages' = IF o.throws THEN Append(errorMessages, m) ELSE errorMessages
          /\ log' = Append(log, [pos |-> p, key |-> key, isCustom |-> TRUE,
                                 success |-> ~o.throws, message |-> m])
  /\ UNCHANGED <<own, chain, custom, params, paramsChecked, memberKeys, pc, idx,
                 outcome, calls, firstDisc, lastDisc, lastGet, fieldRun, findRun>>

\* the end of validate() (lines 84-88)
Finish ==
  /\ pc = "running"
  /\ LoopDone
  /\ AwaitCheck
  /\ pc' = "done"
  /\ outcome' = IF Len(errorMessages) # 0
                  THEN [kind |-> "ParameterException", code |-> ParameterErrorCode,
                        messages |-> errorMessages]
                  ELSE [kind |-> "validated", code |-> 0, messages |-> <<>>]
  /\ UNCHANGED <<own, chain, custom, params, paramsChecked, memberKeys, idx,
                 errorMessages, inflight, log, calls, firstDisc, lastDisc, lastGet,
                 fieldRun, findRun>>

GetPaths ==
  {<<k>> : k \in Keys} \cup {<<s, k>> : s \in {"query", "body"}, k \in Keys}

\* get(path, parsed) called by the caller that validate() returned to
GetValue ==
  /\ pc = "done"
  /\ outcome.kind = "validated"
  /\ ~lastGet.set
  /\ \E path \in GetPaths, parsed \in BOOLEAN :
       lastGet' = [set |-> TRUE, path |-> path, parsed |-> parsed,
                   value |-> Get(path, parsed)]
  /\ UNCHANGED <<own, chain, custom, params, paramsChecked, memberKeys, pc, idx,
                 errorMessages, inflight, log, outcome, calls, firstDisc, lastDisc,
                 fieldRun, findRun>>

-----------------------------------------------------------------------------
(* Validator definitions and requests of the model *)

IntMessage == "must be an integer"
EmailMessage == "must be an email"

RuleSets ==
  { <<Rule("isInt", IntMessage, Undef)>>,
    <<Rule("isInt", IntMessage, Undef), Rule("isOptional", "", Num("18"))>>,
    <<Rule("isInt", IntMessage, Undef), Rule("isEmail", EmailMessage, Undef)>>,
    <<Rule("isOptional", "", Undef)>>,
    <<Rule("isFoo", "", Undef)>>,
    <<NotARule>> }

\* the subtype constructor assigns password1, password2, both or neither
OwnMembers ==
  {<<>>}
  \cup {<<[key |-> k, rules |-> r]>> : k \in Keys, r \in RuleSets}
  \cup {<<[key |-> "password1", rules |-> r1], [key |-> "password2", rules |-> r2]>> :
          r1 \in RuleSets, r2 \in RuleSets}

\* the own keys of a subtype prototype
ProtoLevels == {<<"constructor">>, <<"constructor", "validatePassword">>,
                <<"constructor", "validateUnique">>}

Chains == UNION {[1..n -> ProtoLevels] : n \in 0..MaxLevels}

QueryValues == {Undef, Str("0"), Str("abc")}
BodyValues == {Undef, Str("7")}
NoValues == [k \in Keys |-> Undef]

Requests ==
  {[query |-> q, body |-> b, path |-> NoValues, header |-> NoValues] :
     q \in [Keys -> QueryValues], b \in [Keys -> BodyValues]}

\* the state of a constructed validator (constructor, _initParams)
Constructed(o, c, beh, request) ==
  /\ own = o
  /\ chain = c
  /\ custom = beh
  /\ params = request
  /\ paramsChecked = request
  /\ memberKeys = [isArray |-> FALSE, keys |-> <<>>]
  /\ pc = "idle"
  /\ idx = 1
  /\ errorMessages = <<>>
  /\ inflight = {}
  /\ log = <<>>
  /\ outcome = NoOutcome
  /\ calls = 0
  /\ firstDisc = NoDisc
  /\ lastDisc = NoDisc
  /\ lastGet = NoGet

ChainHasUnique(c) ==
  \E l \in 1..Len(c) : \E i \in 1..Len(c[l]) : c[l][i] = "validateUnique"

Init ==
  /\ \E o \in OwnMembers, c \in Chains, request \in Requests :
       \E beh \in IF ChainHasUnique(c) THEN CustomBehaviours ELSE {"none"} :
         Constructed(o, c, beh, request)
  /\ fieldRun = NoFieldRun
  /\ findRun = NoFindRun

Next ==
  \/ StartValidate
  \/ CheckField
  \/ CustomInvoke
  \/ CustomSettle
  \/ Finish
  \/ GetValue

Spec == Init /\ [][Next]_vars

-----------------------------------------------------------------------------
(* RuleField.validate on its own: every rule set of at most MaxRules rules  *)
(* with at most one isOptional marker, applied to every value               *)

Defaults == {Undef, Num("0"), Bool("false"), Str(""), Num("18"), Str("none")}

RuleAtoms ==
  {Rule("isInt", IntMessage, Undef), Rule("isFloat", "must be a number", Undef),
   Rule("isBoolean", "", Undef), Rule("isEmail", EmailMessage, Undef)}
  \cup {Rule("isOptional", "", d) : d \in Defaults}

FieldRuleSets ==
  {r \in UNION {[1..n -> RuleAtoms] : n \in 0..MaxRules} :
     Cardinality({i \in 1..Len(r) : r[i].name = "isOptional"}) <= 1}

FieldValues ==
  {Undef, Null, Str(""), Str("0"), Str("1"), Str("1.5"), Str("abc"), Str("true"),
   Str("a@b.com"), Num("0"), Num("1"), Bool("true"), Bool("false")}

EmptyRequest ==
  [query |-> NoValues, body |-> NoValues, path |-> NoValues, header |-> NoValues]

InitField ==
  /\ Constructed(<<>>, <<>>, "none", EmptyRequest)
  /\ findRun = NoFindRun
  /\ \E r \in FieldRuleSets, v \in FieldValues :
       fieldRun = [stage |-> "init", rules |-> r, value |-> v,
                   result |-> NoFieldRun.result]

\* new RuleField(rules, this, key).validate(value)
FieldValidate ==
  /\ fieldRun.stage = "init"
  /\ fieldRun' = [fieldRun EXCEPT !.stage = "done",
                     !.result = RuleFieldValidate(fieldRun.rules, fieldRun.value)]
  /\ UNCHANGED <<own, chain, custom, params, paramsChecked, memberKeys, pc, idx,
                 errorMessages, inflight, log, outcome, calls, firstDisc, lastDisc,
                 lastGet, findRun>>

NextField == FieldValidate

SpecField == InitField /\ [][NextField]_vars

-----------------------------------------------------------------------------
(* _findParam on its own: a key carried by any of the four sources          *)

SourceValues == {Undef, Str(""), Str("abc"), Num("0"), Num("7"), Bool("false")}

InitFind ==
  /\ \E q \in SourceValues, b \in SourceValues, pa \in SourceValues, h \in SourceValues :
       Constructed(<<>>, <<>>, "none",
                   [query |-> [NoValues EXCEPT !["password1"] = q],
                    body |-> [NoValues EXCEPT !["password1"] = b],
                    path |-> [NoValues EXCEPT !["password1"] = pa],
                    header |-> [NoValues EXCEPT !["password1"] = h]])
  /\ fieldRun = NoFieldRun
  /\ \E k \in Keys : findRun = [stage |-> "init", key |-> k, result |-> NoFindRun.result]

\* this._findParam(key)
FindParamRun ==
  /\ findRun.stage = "init"
  /\ findRun' = [findRun EXCEPT !.stage = "done", !.result = FindParam(findRun.key)]
  /\ UNCHANGED <<own, chain, custom, params, paramsChecked, memberKeys, pc, idx,
                 errorMessages, inflight, log, outcome, calls, firstDisc, lastDisc,
                 lastGet, fieldRun>>

NextFind == FindParamRun

SpecFind == InitFind /\ [][NextFind]_vars

-----------------------------------------------------------------------------
(* Properties *)

Ended == pc = "done" /\ outcome.kind \in {"validated", "ParameterException"}

\* whether the member at key fails its check, from the member alone
MemberFails(key) ==
  IF TypeOfMember(key) = "function"
    THEN CustomOutcome(key).throws
    ELSE ~RuleFieldValidate(ArrayOfMember(key), FindParam(key).value).pass

\* the message a failing member contributes
MemberMessage(key) ==
  IF TypeOfMember(key) = "function"
    THEN [prefix |-> "",
          text |-> <<IF CustomOutcome(key).message # ""
                       THEN CustomOutcome(key).message ELSE "invalid parameter">>]
    ELSE [prefix |-> key,
          text |-> RuleFieldValidate(ArrayOfMember(key), FindParam(key).value).message]

RECURSIVE FailingMessages(_)
FailingMessages(keys) ==
  IF keys = <<>> THEN <<>>
  ELSE (IF MemberFails(Head(keys)) THEN <<MemberMessage(Head(keys))>> ELSE <<>>)
       \o FailingMessages(Tail(keys))

\* C1: a validate() call that ends without an authoring error has checked every
\* discovered member exactly once, in discovery order; it rejects with one failure of
\* code 10001 whose messages are those of the failing members, one per member and in
\* discovery order, and it returns the validator iff no member failed.
C1_NoShortCircuit ==
  Ended =>
    /\ Len(log) = Len(memberKeys.keys)
    /\ \A i \in 1..Len(log) : log[i].pos = i /\ log[i].key = memberKeys.keys[i]
    /\ outcome.messages = FailingMessages(memberKeys.keys)
    /\ (outcome.kind = "validated") = (FailingMessages(memberKeys.keys) = <<>>)
    /\ (outcome.kind = "ParameterException" => outcome.code = 10001)

\* a rejected call of three members or more in which the first member failed, a later
\* one passed and a custom check failed too
C1_Witness ==
  /\ Ended
  /\ Len(memberKeys.keys) >= 3
  /\ Len(outcome.messages) = 2
  /\ ~log[1].success
  /\ \E i \in 2..Len(log) : log[i].success
  /\ \E i \in 2..Len(log) : log[i].isCustom /\ ~log[i].success

\* the default an isOptional rule of the rule set declares (undefined if none)
DeclaredDefault(rules) ==
  IF \E i \in 1..Len(rules) : rules[i].name = "isOptional"
    THEN rules[CHOOSE i \in 1..Len(rules) : rules[i].name = "isOptional"].opt
    ELSE Undef

\* C2: a rule set with an isOptional rule that declares a default d, applied to an
\* absent value, succeeds with legalValue = d and invokes no predicate; the fatal
\* error is raised only when no default was declared.
C2_OptionalDefault ==
  (/\ fieldRun.stage = "done"
   /\ IsNullish(fieldRun.value)
   /\ AllowEmpty(fieldRun.rules)
   /\ DeclaredDefault(fieldRun.rules) # Undef)
  => /\ ~fieldRun.result.threw
     /\ fieldRun.result.pass
     /\ fieldRun.result.legalValue = DeclaredDefault(fieldRun.rules)
     /\ fieldRun.result.predCalls = 0

\* the field of the definition a get path names, if any
PathField(path) == {i \in 1..Len(own) : own[i].key = path[Len(path)]}

\* C3: after a successful validate(), get of a defaulted absent field returns the
\* declared default, and get of the path a present valid field was found at returns
\* its validated (coerced) value.
C3_GetReturnsValidated ==
  (lastGet.set /\ lastGet.parsed /\ outcome.kind = "validated") =>
    \A i \in PathField(lastGet.path) :
      LET param == FindParam(own[i].key) IN
        /\ (Len(param.path) = 0 /\ Len(lastGet.path) = 1)
             => lastGet.value = DeclaredDefault(own[i].rules)
        /\ (Len(param.path) # 0 /\ lastGet.path = param.path)
             => lastGet.value = Convert(own[i].rules, param.value)

\* the positions of Sources in which key is present
PresentIn(key) == {i \in 1..Len(Sources) : LodashGet(params, Sources[i], key) # Undef}

\* C4: _findParam hands back the value of the key in the first of query, body, path,
\* header in which the key is present, with the path of that source; the key is
\* absent (null, empty path) only when no source holds it.
C4_FirstPresentSource ==
  findRun.stage = "done" =>
    IF PresentIn(findRun.key) = {}
      THEN findRun.result = [value |-> Null, path |-> <<>>]
      ELSE LET i == CHOOSE i \in PresentIn(findRun.key) :
                      \A j \in PresentIn(findRun.key) : i <= j
           IN findRun.result = [value |-> LodashGet(params, Sources[i], findRun.key),
                                path |-> <<Sources[i], findRun.key>>]

\* the coercion with integer over float over boolean precedence
PrecedenceConvert(rules, value) ==
  IF \E i \in 1..Len(rules) : rules[i].name = "isInt" THEN ParseInt(value)
  ELSE IF \E i \in 1..Len(rules) : rules[i].name = "isFloat" THEN ParseFloat(value)
  ELSE IF \E i \in 1..Len(rules) : rules[i].name = "isBoolean" THEN ToBoolean(value)
  ELSE value

\* C5: when every rule passes, the legal value is the raw value coerced once, by
\* isInt before isFloat before isBoolean whatever the declared order of the rules,
\* and the raw value itself when no rule bears a coercion.
C5_CoercionPrecedence ==
  (fieldRun.stage = "done" /\ ~IsNullish(fieldRun.value) /\ fieldRun.result.pass)
    => fieldRun.result.legalValue = PrecedenceConvert(fieldRun.rules, fieldRun.value)

\* C6: a failure a custom check signals is caught: its check is logged as failed with
\* the failure's own message, or the fallback when that is empty, and no field-name
\* prefix; the message is in the aggregated list; the scan goes on, so the call can
\* only end in an error at a rule-set member, and otherwise ends rejected with the
\* message in its list and every member checked.
C6_CustomFailureCaught ==
  /\ \A i \in 1..Len(log) :
       (log[i].isCustom /\ CustomOutcome(log[i].key).throws) =>
         /\ ~log[i].success
         /\ log[i].message.prefix = ""
         /\ log[i].message.text =
              <<IF CustomOutcome(log[i].key).message # ""
                  THEN CustomOutcome(log[i].key).message ELSE "invalid parameter">>
         /\ \E j \in 1..Len(errorMessages) : errorMessages[j] = log[i].message
         /\ Ended => /\ outcome.kind = "ParameterException"
                     /\ \E j \in 1..Len(outcome.messages) :
                          outcome.messages[j] = log[i].message
                     /\ Len(log) = Len(memberKeys.keys)
  /\ (pc = "done" /\ ~lastDisc.threw /\ ~Ended)
       => TypeOfMember(memberKeys.keys[Len(log) + 1]) # "function"

\* a custom check that rejected with an empty message, followed by another member
\* that was checked after it, in a call that ended rejected
C6_Witness ==
  /\ Ended
  /\ \E i \in 1..Len(log) :
       /\ log[i].isCustom
       /\ log[i].message.text = <<"invalid parameter">>
       /\ CustomOutcome(log[i].key).throws
       /\ i < Len(log)

\* the definition declares an array member holding an element that is not a Rule
DeclaresNonRule ==
  \E i \in 1..Len(own) : \E j \in 1..Len(own[i].rules) : ~own[i].rules[j].isRule

\* the check of the declared field key meets an authoring error: the field is absent
\* and optional with no default, or present under a rule of unknown predicate
AuthoringError(key) ==
  /\ IsOwnKey(key)
  /\ LET v == FindParam(key).value
         rules == OwnRules(key)
     IN IF IsNullish(v)
          THEN AllowEmpty(rules) /\ DeclaredDefault(rules) = Undef
          ELSE \E j \in 1..Len(rules) :
                 rules[j].name \notin PredicateNames \cup {"isOptional"}

\* C7: an authoring error makes validate() fail with that error, never with the
\* ParameterException and never as a message, also when earlier members failed; a
\* non-Rule element is reported by discovery, before any member is checked and before
\* paramsChecked is written.
C7_AuthoringErrorsAbort ==
  /\ DeclaresNonRule =>
       /\ pc # "running"
       /\ log = <<>>
       /\ paramsChecked = params
       /\ calls > 0 => (lastDisc.threw /\ outcome.kind = "Error" /\ outcome.messages = <<>>)
  /\ (pc = "done" /\ ~lastDisc.threw) =>
       \A i \in 1..Len(memberKeys.keys) :
         (/\ AuthoringError(memberKeys.keys[i])
          /\ \A j \in 1..(i - 1) : ~AuthoringError(memberKeys.keys[j]))
         => /\ outcome.kind \in {"Error", "TypeError"}
            /\ outcome.messages = <<>>
            /\ Len(log) = i - 1
            /\ \A j \in 1..Len(errorMessages) :
                 errorMessages[j].prefix # memberKeys.keys[i]

\* a call that ended in an authoring error at its second member, after the first
\* member had produced a validation failure
C7_Witness ==
  /\ pc = "done"
  /\ ~lastDisc.threw
  /\ outcome.kind \in {"Error", "TypeError"}
  /\ Len(errorMessages) = 1
  /\ AuthoringError(memberKeys.keys[2])

\* C8: member discovery keeps each member name at most once.
C8_NoDuplicateMembers ==
  \A i \in 1..Len(memberKeys.keys) : \A j \in 1..Len(memberKeys.keys) :
    memberKeys.keys[i] = memberKeys.keys[j] => i = j

\* C9: every validate() call on the instance discovers what the first call did.
C9_DiscoveryStable == calls >= 1 => lastDisc = firstDisc

\* C10: at most one member check is in progress; while the check of position p is in
\* progress every earlier member has completed and no later one has started, and
\* between checks the members started are exactly the members completed.
C10_NoOverlap ==
  /\ Cardinality(inflight) <= 1
  /\ \A p \in inflight : p = idx - 1 /\ Len(log) = p - 1
  /\ (pc = "running" /\ inflight = {}) => Len(log) = idx - 1
  /\ \A i \in 1..Len(log) : log[i].pos = i

\* a custom check suspended while a further member waits to be checked
C10_Witness ==
  /\ pc = "running"
  /\ inflight # {}
  /\ idx <= Len(memberKeys.keys)
  /\ \E p \in inflight : memberKeys.keys[p] = "validateUnique"

====
